---- MODULE Spec2Model ----
(***************************************************************************)
(* Model of the investment bot: the tick handlers of the two programs of   *)
(* the repository, ArgentinaTrader (src/main.py) and TradingSystem         *)
(* (src/src/main.py), the risk functions they call, the candidate          *)
(* selection, and the brokerage they talk to.                              *)
(*                                                                         *)
(* Conventions.                                                            *)
(*  - Fractions (allocations, stop levels, signals) are integers in        *)
(*    hundredths; share quantities are integers in hundredths of a share.  *)
(*  - A Python call is modelled by what the interpreter does with it: a    *)
(*    call that omits a required positional argument raises TypeError, a   *)
(*    read of an attribute no code assigns raises AttributeError,          *)
(*    subscripting None raises TypeError, a float division by 0.0 raises   *)
(*    ZeroDivisionError.  An exception is the name of its class; "none"    *)
(*    means that the call returned.                                        *)
(*  - Init is the state after construction: every object holds the         *)
(*    attributes its __init__ assigns.                                     *)
(***************************************************************************)
EXTENDS Integers, Sequences, FiniteSets, TLC

(***************************************************************************)
(* Bounds of the model.                                                    *)
(***************************************************************************)
MaxOpenOrders == 1
MaxPending == 2
MaxScore == 3

(***************************************************************************)
(* Program constants.                                                      *)
(***************************************************************************)
initial_investment == 13000
max_position_increase == 150
rebalance_threshold == 10
MaxSelected == 3
SectorAllowance == 1

\* A parameter the caller did not pass, a value never computed.
Missing == 0 - 1

(***************************************************************************)
(* Portfolio configuration.                                                *)
(***************************************************************************)
NoProfile == [target_allocation |-> 0, momentum_weight |-> 0, mean_rev_weight |-> 0,
              stop_loss |-> 0, take_profit |-> 0]

holdings ==
    [s \in {"YPF", "BBVA", "CRESY", "PAM"} |->
        CASE s = "YPF"   -> [target_allocation |-> 35, momentum_weight |-> 80,
                             mean_rev_weight |-> 20, stop_loss |-> 15, take_profit |-> 30]
          [] s = "BBVA"  -> [target_allocation |-> 25, momentum_weight |-> 70,
                             mean_rev_weight |-> 30, stop_loss |-> 12, take_profit |-> 25]
          [] s = "CRESY" -> [target_allocation |-> 8, momentum_weight |-> 60,
                             mean_rev_weight |-> 40, stop_loss |-> 10, take_profit |-> 20]
          [] s = "PAM"   -> [target_allocation |-> 7, momentum_weight |-> 60,
                             mean_rev_weight |-> 40, stop_loss |-> 10, take_profit |-> 20]]

\* The candidate universe in the insertion order of the dict.
CandidateOrder ==
    << "GGAL", "BMA", "SUPV", "BBAR", "TEO", "GLOB", "CEPU", "EDN", "TGS", "AGRO",
       "IRCP", "IRS", "LOMA", "TS", "ARCO", "MELI" >>

candidates ==
    [s \in {CandidateOrder[i] : i \in 1..Len(CandidateOrder)} |->
        [sector |->
            CASE s \in {"GGAL", "BMA", "SUPV", "BBAR"} -> "banking"
              [] s \in {"TEO", "GLOB"}                 -> "technology"
              [] s \in {"CEPU", "EDN", "TGS"}          -> "energy"
              [] s = "AGRO"                            -> "agriculture"
              [] s \in {"IRCP", "IRS"}                 -> "real_estate"
              [] s \in {"LOMA", "TS"}                  -> "industrial"
              [] OTHER                                 -> "consumer"]]

create_trading_config(selected_symbols) ==
    [s \in {selected_symbols[i] : i \in 1..Len(selected_symbols)} |->
        [target_allocation |-> 8, momentum_weight |-> 50, mean_rev_weight |-> 50,
         stop_loss |-> 8, take_profit |-> 15]]

(***************************************************************************)
(* Risk functions.                                                         *)
(***************************************************************************)
Abs(x) == IF x < 0 THEN -x ELSE x

Min(a, b) == IF b < a THEN b ELSE a

\* returns = (current_price - entry_price) / entry_price, compared with the
\* levels after multiplying through by 100 * entry_price (entry_price > 0).
check_exits_le(current_price, entry_price, stop_loss, take_profit) ==
    IF (current_price - entry_price) * 100 <= -stop_loss * entry_price THEN "stop_loss"
    ELSE IF (current_price - entry_price) * 100 >= take_profit * entry_price THEN "take_profit"
    ELSE "None"

check_exits(current_price, entry_price, stop_loss, take_profit) ==
    IF (current_price - entry_price) * 100 < -stop_loss * entry_price THEN "stop_loss"
    ELSE IF (current_price - entry_price) * 100 > take_profit * entry_price THEN "take_profit"
    ELSE "None"

\* The target in hundredths: base_size (whole, for the allocations of the
\* repository) times the adjustment in hundredths.
calculate_position_size_signed(signal, symbol_data) ==
    ((initial_investment * symbol_data.target_allocation) \div 100)
        * Min(signal, max_position_increase)

calculate_position_size_uncapped(signal, symbol_data) ==
    ((initial_investment * symbol_data.target_allocation) \div 100) * Abs(signal)

calculate_position_size(signal, symbol_data) ==
    ((initial_investment * symbol_data.target_allocation) \div 100)
        * Min(Abs(signal), max_position_increase)

(***************************************************************************)
(* The state.                                                              *)
(***************************************************************************)
VARIABLES
    program,          \* which of the two programs runs: "ArgentinaTrader" or "TradingSystem"
    position,         \* brokerage: per symbol [found, qty, avg_entry_price]
    mkt,              \* brokerage: per symbol the current price
    orders,           \* brokerage: the accepted orders not yet filled
    trading_symbols,  \* the trading sleeve: symbol -> profile
    metrics,          \* the attributes of the PerformanceMetrics object
    is_running,       \* TradingSystem.is_running
    stream,           \* "running", or "crashed" once an exception left a handler
    pending,          \* the event loop: ticks received and not yet dispatched
    tasks,            \* the event loop: evaluations suspended at an await
    ev,               \* the last completed evaluation
    call              \* the last call of a risk or selection function

vars == << program, position, mkt, orders, trading_symbols, metrics, is_running,
           stream, pending, tasks, ev, call >>

Programs == {"ArgentinaTrader", "TradingSystem"}

\* The symbols ticks arrive for: a core holding and a candidate.
Symbols == {"YPF", "GGAL"}

\* The account and the market of the model: every position was entered at
\* 100; YPF is absent, flat or held at its base allocation and trades below
\* its stop, inside the band or above its take-profit level; GGAL is absent
\* or held at the sleeve's base allocation.
EntryPrices == {100}
PricesOf(symbol) == IF symbol = "YPF" THEN {84, 110, 131} ELSE {110}
QtysOf(symbol) == IF symbol = "YPF" THEN {0, 455000} ELSE {104000}
TickPrices == {100, 105}
\* Signals: none, 10% above the base allocation, beyond the cap.
Signals == {0, 110, 200}

NoPosition == [found |-> FALSE, qty |-> 0, avg_entry_price |-> 0]

NoOrder == [symbol |-> "", side |-> "NONE", qty |-> 0]

(***************************************************************************)
(* The brokerage and the data provider, as the handlers see them.          *)
(***************************************************************************)
\* What one evaluation meets outside the program: whether each brokerage
\* call succeeds and what the bars hold.  bars is "ok" (signal is what the
\* blender makes of them), "None" (get_bars caught an error of the provider)
\* or "bad" (a frame the signal computation raises on).  What an evaluation
\* cannot read (after a failed first lookup, nothing) is not drawn.
Inputs ==
    [pos_ok : {TRUE}, pos2_ok : BOOLEAN, submit_ok : BOOLEAN, bars : {"ok"}, signal : Signals]
    \cup [pos_ok : {TRUE}, pos2_ok : BOOLEAN, submit_ok : BOOLEAN,
          bars : {"None", "bad"}, signal : {0}]
    \cup {[pos_ok |-> FALSE, pos2_ok |-> FALSE, submit_ok |-> FALSE, bars |-> "None",
           signal |-> 0]}

\* TradingClient.get_position: raises when the symbol has no position or the
\* request fails.
get_position(symbol, ok) ==
    IF ok /\ position[symbol].found
    THEN [exc |-> "none", qty |-> position[symbol].qty,
          avg_entry_price |-> position[symbol].avg_entry_price,
          current_price |-> mkt[symbol]]
    ELSE [exc |-> "APIError", qty |-> 0, avg_entry_price |-> 0, current_price |-> 0]

\* core.get(symbol) or trading_symbols.get(symbol); NoProfile stands for None.
symbol_data(symbol) ==
    IF symbol \in DOMAIN holdings THEN holdings[symbol]
    ELSE IF symbol \in DOMAIN trading_symbols THEN trading_symbols[symbol]
    ELSE NoProfile

(***************************************************************************)
(* PerformanceMetrics.  The class is a dataclass that defines its own      *)
(* __init__, so the generated one is not used and the default_factory      *)
(* fields trades, daily_returns and positions are never assigned: the      *)
(* object holds the attributes of MetricsInit only.                        *)
(***************************************************************************)
MetricsInit_with_fields ==
    [attrs |-> {"logger", "trades", "daily_returns", "positions"}, trades |-> << >>]

MetricsInit == [attrs |-> {"logger"}, trades |-> << >>]

update_position(m, symbol, price, quantity) ==
    IF "positions" \in m.attrs THEN [exc |-> "none", metrics |-> m]
    ELSE [exc |-> "AttributeError", metrics |-> m]

log_trade(m, symbol, quantity, exit_reason) ==
    IF "trades" \in m.attrs
    THEN [exc |-> "none",
          metrics |-> [m EXCEPT !.trades =
                          Append(@, [symbol |-> symbol, quantity |-> quantity,
                                     exit_reason |-> exit_reason])]]
    ELSE [exc |-> "AttributeError", metrics |-> m]

(***************************************************************************)
(* Order creation and execution.                                           *)
(***************************************************************************)
\* OrderCreator.create_market_order(symbol, qty, side, price): price is a
\* required parameter; a SELL first computes the fees, and fees.py uses math
\* without importing it.
create_market_order_price_optional(symbol, qty, side, price) ==
    [exc |-> "none", order |-> [symbol |-> symbol, side |-> side, qty |-> qty]]

create_market_order(symbol, qty, side, price) ==
    IF price = Missing THEN [exc |-> "TypeError", order |-> NoOrder]
    ELSE IF side = "SELL" THEN [exc |-> "NameError", order |-> NoOrder]
    ELSE [exc |-> "none", order |-> [symbol |-> symbol, side |-> side, qty |-> qty]]

\* MarketOrderRequest(symbol, qty, side, time_in_force), built in place by
\* ArgentinaTrader.execute_trade.
MarketOrderRequest(symbol, qty, side) ==
    [exc |-> "none", order |-> [symbol |-> symbol, side |-> side, qty |-> qty]]

NoTrade ==
    [called |-> FALSE, target |-> Missing, current |-> 0, order |-> NoOrder,
     accepted |-> FALSE, exc |-> "none", raised |-> "none"]

\* The body both execute_trade methods share; made is the order request, or
\* the exception its construction raised.  The order is the one handed to
\* submit_order; exc is what the method's own except clause caught.
execute_trade_body(symbol, target_position, current_position, made, in) ==
    IF target_position # current_position
    THEN IF made.exc # "none"
         THEN [called |-> TRUE, target |-> target_position, current |-> current_position,
               order |-> NoOrder, accepted |-> FALSE, exc |-> made.exc, raised |-> "none"]
         ELSE [called |-> TRUE, target |-> target_position, current |-> current_position,
               order |-> made.order, accepted |-> in.submit_ok,
               exc |-> IF in.submit_ok THEN "none" ELSE "APIError", raised |-> "none"]
    ELSE [called |-> TRUE, target |-> target_position, current |-> current_position,
          order |-> NoOrder, accepted |-> FALSE, exc |-> "none", raised |-> "none"]

\* The position execute_trade reads: 0 when the lookup raises (bare except).
current_position_of(symbol, in) ==
    LET p == get_position(symbol, in.pos2_ok)
    IN  IF p.exc = "none" THEN p.qty ELSE 0

Side(target_position, current_position) ==
    IF target_position > current_position THEN "BUY" ELSE "SELL"

\* execute_trade without its try/except: the error of submit_order leaves it.
TradeExecutor_execute_trade_no_try(symbol, target_position, in) ==
    LET current_position == current_position_of(symbol, in)
        r == execute_trade_body(symbol, target_position, current_position,
                 create_market_order(symbol, Abs(target_position - current_position),
                                     Side(target_position, current_position), Missing), in)
    IN  [r EXCEPT !.exc = "none", !.raised = r.exc]

\* TradeExecutor.execute_trade: the call of create_market_order passes
\* symbol, qty and side, and no price.
TradeExecutor_execute_trade(symbol, target_position, in) ==
    LET current_position == current_position_of(symbol, in)
    IN  execute_trade_body(symbol, target_position, current_position,
            create_market_order(symbol, Abs(target_position - current_position),
                                Side(target_position, current_position), Missing), in)

ArgentinaTrader_execute_trade_no_try(symbol, target_position, in) ==
    LET current_position == current_position_of(symbol, in)
        r == execute_trade_body(symbol, target_position, current_position,
                 MarketOrderRequest(symbol, Abs(target_position - current_position),
                                    Side(target_position, current_position)), in)
    IN  [r EXCEPT !.exc = "none", !.raised = r.exc]

ArgentinaTrader_execute_trade(symbol, target_position, in) ==
    LET current_position == current_position_of(symbol, in)
    IN  execute_trade_body(symbol, target_position, current_position,
            MarketOrderRequest(symbol, Abs(target_position - current_position),
                               Side(target_position, current_position)), in)

(***************************************************************************)
(* Candidate selection.                                                    *)
(***************************************************************************)
Sectors == {candidates[s].sector : s \in DOMAIN candidates}

Index(symbol) == CHOOSE i \in 1..Len(CandidateOrder) : CandidateOrder[i] = symbol

\* sector_counts as select_trading_component accumulates it: the number of
\* scored candidates of each sector.
sector_counts_of(scores) ==
    [sec \in Sectors |-> Cardinality({s \in DOMAIN scores : candidates[s].sector = sec})]

\* sorted(scores, key=scores.get, reverse=True): descending by score, equal
\* scores in the order of insertion (the sort is stable, also when reversed).
RECURSIVE SortedByScore(_, _)
SortedByScore(scores, rest) ==
    IF rest = {} THEN << >>
    ELSE LET best == CHOOSE s \in rest :
                        \A t \in rest : \/ scores[s] > scores[t]
                                        \/ scores[s] = scores[t] /\ Index(s) <= Index(t)
         IN  << best >> \o SortedByScore(scores, rest \ {best})

RECURSIVE SelectLoop_no_break(_, _, _, _, _)
SelectLoop_no_break(ranked, i, selected_symbols, selected_sectors, sector_counts) ==
    IF i > Len(ranked) THEN selected_symbols
    ELSE LET symbol == ranked[i]
             sector == candidates[symbol].sector
         IN  IF sector \notin selected_sectors \/ sector_counts[sector] <= SectorAllowance
             THEN SelectLoop_no_break(ranked, i + 1, Append(selected_symbols, symbol),
                                      selected_sectors \cup {sector}, sector_counts)
             ELSE SelectLoop_no_break(ranked, i + 1, selected_symbols, selected_sectors,
                                      sector_counts)

RECURSIVE SelectLoop_no_sector(_, _, _, _, _)
SelectLoop_no_sector(ranked, i, selected_symbols, selected_sectors, sector_counts) ==
    IF i > Len(ranked) \/ Len(selected_symbols) >= MaxSelected THEN selected_symbols
    ELSE SelectLoop_no_sector(ranked, i + 1, Append(selected_symbols, ranked[i]),
                              selected_sectors, sector_counts)

\* The loop of _select_top_symbols from the i-th ranked symbol on.
RECURSIVE SelectLoop(_, _, _, _, _)
SelectLoop(ranked, i, selected_symbols, selected_sectors, sector_counts) ==
    IF i > Len(ranked) THEN selected_symbols
    ELSE LET symbol == ranked[i]
             sector == candidates[symbol].sector
         IN  IF Len(selected_symbols) >= MaxSelected THEN selected_symbols
             ELSE IF sector \notin selected_sectors \/ sector_counts[sector] <= SectorAllowance
             THEN SelectLoop(ranked, i + 1, Append(selected_symbols, symbol),
                             selected_sectors \cup {sector}, sector_counts)
             ELSE SelectLoop(ranked, i + 1, selected_symbols, selected_sectors,
                             sector_counts)

\* The list _select_top_symbols builds.
selected_symbols_of(scores, sector_counts) ==
    SelectLoop(SortedByScore(scores, DOMAIN scores), 1, << >>, {}, sector_counts)

_select_top_symbols(scores, sector_counts) ==
    create_trading_config(selected_symbols_of(scores, sector_counts))

\* HistoricalDataClient.check_liquidity(symbol, min_volume): min_volume is a
\* required parameter.  liquid is the answer of the data provider.
check_liquidity(symbol, min_volume, liquid) ==
    IF min_volume = Missing THEN [exc |-> "TypeError", value |-> FALSE]
    ELSE [exc |-> "none", value |-> liquid]

\* TradingSystem.select_trading_component: the loop calls
\* check_liquidity(symbol) for the first candidate, outside any try.  scores
\* is what the loop would collect.
TradingSystem_select_trading_component(scores) ==
    LET first == check_liquidity(CandidateOrder[1], Missing, CandidateOrder[1] \in DOMAIN scores)
    IN  IF first.exc # "none"
        THEN [exc |-> first.exc, trading_symbols |-> trading_symbols]
        ELSE [exc |-> "none",
              trading_symbols |-> _select_top_symbols(scores, sector_counts_of(scores))]

\* ArgentinaTrader.select_trading_component: its own check_liquidity takes
\* the symbol alone; the selection loop is the same, written in place.
ArgentinaTrader_select_trading_component(scores) ==
    [exc |-> "none",
     trading_symbols |-> _select_top_symbols(scores, sector_counts_of(scores))]

(***************************************************************************)
(* The tick handlers.  An evaluation is the record of what one call of the *)
(* handler met and did.                                                    *)
(***************************************************************************)
NoRead == [found |-> FALSE, qty |-> 0, avg_entry_price |-> 0, current_price |-> 0]

NoInputs ==
    [pos_ok |-> FALSE, pos2_ok |-> FALSE, submit_ok |-> FALSE, bars |-> "None", signal |-> 0]

EvalBase(symbol, price, in) ==
    [symbol |-> symbol, price |-> price, in |-> in,
     skipped |-> FALSE,       \* quote_handler did not call the handler
     pos |-> NoRead,          \* the position the handler read
     profile |-> NoProfile,   \* the symbol_data it looked up
     exit |-> "unreached",    \* the exit check: "stop_loss", "take_profit", "None"
     fetched |-> FALSE,       \* the bars were requested
     sized |-> FALSE,         \* the target was computed
     signal |-> 0,
     target |-> Missing,
     trade |-> NoTrade,       \* the call of execute_trade
     logged |-> FALSE,        \* metrics.log_trade appended a trade
     err |-> "none",          \* what the handler's except clause caught
     raised |-> "none",       \* what left the handler
     metrics |-> metrics]

NoEval == EvalBase("", 0, NoInputs)

\* except Exception as e: every exception the evaluation can raise derives
\* from Exception.
Caught_lookup_only(exc) == exc = "APIError"

Caught(exc) == TRUE

Fail(e, exc) ==
    IF Caught(exc) THEN [e EXCEPT !.err = exc] ELSE [e EXCEPT !.raised = exc]

PosRead(p) ==
    [found |-> TRUE, qty |-> p.qty, avg_entry_price |-> p.avg_entry_price,
     current_price |-> p.current_price]

\* abs(target_position - current_position) / current_position > 0.10, for
\* current_position # 0: the quotient of a negative position is not positive.
NeedsRebalance_ge(target_position, current_position) ==
    /\ current_position > 0
    /\ Abs(target_position - current_position) * 100 >= rebalance_threshold * current_position

NeedsRebalance(target_position, current_position) ==
    /\ current_position > 0
    /\ Abs(target_position - current_position) * 100 > rebalance_threshold * current_position

\* The rebalance step both handlers end with; tr is the call of execute_trade
\* it makes when the threshold is passed.
Rebalance(e, current_position, target_position, tr) ==
    IF current_position = 0 THEN Fail(e, "ZeroDivisionError")
    ELSE IF NeedsRebalance(target_position, current_position)
    THEN IF tr.raised # "none" THEN Fail([e EXCEPT !.trade = tr], tr.raised)
         ELSE [e EXCEPT !.trade = tr]
    ELSE e

\* The exit step of TradingSystem: liquidate, then log the trade.
TradingSystem_exit(e, symbol, quantity, exit_signal, m, in) ==
    LET tr == TradeExecutor_execute_trade(symbol, 0, in)
        e1 == [e EXCEPT !.trade = tr]
        lg == log_trade(m, symbol, quantity, exit_signal)
    IN  IF tr.raised # "none" THEN Fail(e1, tr.raised)
        ELSE IF lg.exc # "none" THEN Fail(e1, lg.exc)
        ELSE [e1 EXCEPT !.logged = TRUE, !.metrics = lg.metrics]

\* The signal and sizing step of TradingSystem.
TradingSystem_resize(e, symbol, quantity, sd, in) ==
    LET e1 == [e EXCEPT !.fetched = TRUE]
        target_position == calculate_position_size(in.signal, sd)
        e2 == [e1 EXCEPT !.sized = TRUE, !.signal = in.signal, !.target = target_position]
    IN  IF in.bars = "None" THEN Fail(e1, "TypeError")
        ELSE IF in.bars = "bad" THEN Fail(e1, "KeyError")
        ELSE Rebalance(e2, quantity, target_position,
                       TradeExecutor_execute_trade(symbol, target_position, in))

\* TradingSystem.process_market_data(symbol, price).
process_market_data(symbol, price, in) ==
    LET e0 == EvalBase(symbol, price, in)
        p  == get_position(symbol, in.pos_ok)
        e1 == [e0 EXCEPT !.pos = PosRead(p)]
        up == update_position(metrics, symbol, p.current_price, p.qty)
        sd == symbol_data(symbol)
        e2 == [e1 EXCEPT !.profile = sd]
        exit_signal == check_exits(p.current_price, p.avg_entry_price,
                                   sd.stop_loss, sd.take_profit)
        e3 == [e2 EXCEPT !.exit = exit_signal]
    IN  IF p.exc # "none" THEN Fail(e0, p.exc)
        ELSE IF up.exc # "none" THEN Fail(e1, up.exc)
        ELSE IF sd = NoProfile THEN Fail(e2, "TypeError")
        ELSE IF p.avg_entry_price = 0 THEN Fail(e2, "ZeroDivisionError")
        ELSE IF exit_signal # "None"
             THEN TradingSystem_exit(e3, symbol, p.qty, exit_signal, up.metrics, in)
        ELSE TradingSystem_resize(e3, symbol, p.qty, sd, in)

\* The methods class ArgentinaTrader defines.
ArgentinaTrader_methods_with_sizer ==
    {"calculate_hurst_exponent", "get_historical_data", "check_liquidity",
     "select_trading_component", "calculate_signals", "calculate_position_size",
     "process_real_time_data", "execute_trade", "run_strategy"}

ArgentinaTrader_methods ==
    {"calculate_hurst_exponent", "get_historical_data", "check_liquidity",
     "select_trading_component", "calculate_signals", "process_real_time_data",
     "execute_trade", "run_strategy"}

\* ArgentinaTrader.calculate_signals: 0 when the bars are None.
calculate_signals_skip(symbol, in) ==
    IF in.bars = "None" THEN [exc |-> "TypeError", value |-> 0]
    ELSE IF in.bars = "bad" THEN [exc |-> "KeyError", value |-> 0]
    ELSE [exc |-> "none", value |-> in.signal]

calculate_signals(symbol, in) ==
    IF in.bars = "None" THEN [exc |-> "none", value |-> 0]
    ELSE IF in.bars = "bad" THEN [exc |-> "KeyError", value |-> 0]
    ELSE [exc |-> "none", value |-> in.signal]

\* The signal and sizing step of ArgentinaTrader: the handler calls
\* self.calculate_position_size, which the class does not define.
ArgentinaTrader_resize(e, symbol, quantity, sd, in) ==
    LET e1 == [e EXCEPT !.fetched = TRUE]
        sig == calculate_signals(symbol, in)
        target_position == calculate_position_size(sig.value, sd)
        e2 == [e1 EXCEPT !.signal = sig.value]
        e3 == [e2 EXCEPT !.sized = TRUE, !.target = target_position]
    IN  IF sig.exc # "none" THEN Fail(e1, sig.exc)
        ELSE IF "calculate_position_size" \notin ArgentinaTrader_methods
             THEN Fail(e2, "AttributeError")
        ELSE Rebalance(e3, quantity, target_position,
                       ArgentinaTrader_execute_trade(symbol, target_position, in))

\* process_real_time_data with the exit check made on the price of the tick.
process_real_time_data_tick_price(symbol, price, in) ==
    LET e0 == EvalBase(symbol, price, in)
        p  == get_position(symbol, in.pos_ok)
        e1 == [e0 EXCEPT !.pos = PosRead(p)]
        sd == symbol_data(symbol)
        e2 == [e1 EXCEPT !.profile = sd]
        exit_signal == check_exits(price, p.avg_entry_price, sd.stop_loss, sd.take_profit)
        e3 == [e2 EXCEPT !.exit = exit_signal]
        tr == ArgentinaTrader_execute_trade(symbol, 0, in)
    IN  IF p.exc # "none" THEN Fail(e0, p.exc)
        ELSE IF sd = NoProfile THEN Fail(e2, "TypeError")
        ELSE IF p.avg_entry_price = 0 THEN Fail(e2, "ZeroDivisionError")
        ELSE IF exit_signal # "None"
             THEN IF tr.raised # "none" THEN Fail([e3 EXCEPT !.trade = tr], tr.raised)
                  ELSE [e3 EXCEPT !.trade = tr]
        ELSE ArgentinaTrader_resize(e3, symbol, p.qty, sd, in)

\* process_real_time_data with the return after the liquidation left out.
process_real_time_data_no_return(symbol, price, in) ==
    LET e0 == EvalBase(symbol, price, in)
        p  == get_position(symbol, in.pos_ok)
        e1 == [e0 EXCEPT !.pos = PosRead(p)]
        sd == symbol_data(symbol)
        e2 == [e1 EXCEPT !.profile = sd]
        exit_signal == check_exits(p.current_price, p.avg_entry_price,
                                   sd.stop_loss, sd.take_profit)
        e3 == [e2 EXCEPT !.exit = exit_signal]
        tr == ArgentinaTrader_execute_trade(symbol, 0, in)
    IN  IF p.exc # "none" THEN Fail(e0, p.exc)
        ELSE IF sd = NoProfile THEN Fail(e2, "TypeError")
        ELSE IF p.avg_entry_price = 0 THEN Fail(e2, "ZeroDivisionError")
        ELSE IF exit_signal # "None"
             THEN IF tr.raised # "none" THEN Fail([e3 EXCEPT !.trade = tr], tr.raised)
                  ELSE ArgentinaTrader_resize([e3 EXCEPT !.trade = tr], symbol, p.qty, sd, in)
        ELSE ArgentinaTrader_resize(e3, symbol, p.qty, sd, in)

\* ArgentinaTrader.process_real_time_data(symbol, price).
process_real_time_data(symbol, price, in) ==
    LET e0 == EvalBase(symbol, price, in)
        p  == get_position(symbol, in.pos_ok)
        e1 == [e0 EXCEPT !.pos = PosRead(p)]
        sd == symbol_data(symbol)
        e2 == [e1 EXCEPT !.profile = sd]
        exit_signal == check_exits(p.current_price, p.avg_entry_price,
                                   sd.stop_loss, sd.take_profit)
        e3 == [e2 EXCEPT !.exit = exit_signal]
        tr == ArgentinaTrader_execute_trade(symbol, 0, in)
    IN  IF p.exc # "none" THEN Fail(e0, p.exc)
        ELSE IF sd = NoProfile THEN Fail(e2, "TypeError")
        ELSE IF p.avg_entry_price = 0 THEN Fail(e2, "ZeroDivisionError")
        ELSE IF exit_signal # "None"
             THEN IF tr.raised # "none" THEN Fail([e3 EXCEPT !.trade = tr], tr.raised)
                  ELSE [e3 EXCEPT !.trade = tr]
        ELSE ArgentinaTrader_resize(e3, symbol, p.qty, sd, in)

\* quote_handler(data): TradingSystem's evaluates while is_running;
\* ArgentinaTrader's always.
quote_handler_unguarded(symbol, price, in) ==
    IF program = "TradingSystem" THEN process_market_data(symbol, price, in)
    ELSE process_real_time_data(symbol, price, in)

quote_handler(symbol, price, in) ==
    IF program = "TradingSystem"
    THEN IF is_running THEN process_market_data(symbol, price, in)
         ELSE [EvalBase(symbol, price, in) EXCEPT !.skipped = TRUE]
    ELSE process_real_time_data(symbol, price, in)

(***************************************************************************)
(* The actions.                                                            *)
(***************************************************************************)
PositionsOf(symbol) ==
    {NoPosition} \cup [found : {TRUE}, qty : QtysOf(symbol), avg_entry_price : EntryPrices]

\* The candidates a selection pass of the model may score.
ScoredUniverse == {"GGAL"}

ScoreInputs(universe) ==
    UNION {[scored -> 1..MaxScore] : scored \in SUBSET universe}

InitProgram ==
    /\ program \in Programs
    /\ trading_symbols = << >>
    /\ metrics = MetricsInit
    /\ is_running = FALSE
    /\ stream = "running"
    /\ pending = << >>
    /\ tasks = << >>
    /\ ev = NoEval

Init ==
    /\ InitProgram
    /\ position \in [Symbols -> UNION {PositionsOf(s) : s \in Symbols}]
    /\ \A s \in Symbols : position[s] \in PositionsOf(s)
    /\ mkt \in [Symbols -> UNION {PricesOf(s) : s \in Symbols}]
    /\ \A s \in Symbols : mkt[s] \in PricesOf(s)
    /\ orders = << >>
    /\ call = [fn |-> "none", done |-> FALSE]

\* TradingClient.submit_order, as the brokerage sees an evaluation's trade.
submit_order(open, tr) ==
    IF tr.accepted THEN Append(open, tr.order) ELSE open

\* What a completed evaluation leaves behind.
Complete(e) ==
    /\ ev' = e
    /\ metrics' = e.metrics
    /\ orders' = submit_order(orders, e.trade)
    /\ stream' = IF e.raised # "none" THEN "crashed" ELSE stream

\* A tick arrives and the stream client awaits quote_handler for it.
Tick(symbol, price) ==
    /\ stream = "running"
    /\ pending = << >> /\ tasks = << >>
    /\ Len(orders) < MaxOpenOrders
    /\ \E in \in Inputs : Complete(quote_handler(symbol, price, in))
    /\ UNCHANGED << program, position, mkt, trading_symbols, is_running, pending, tasks, call >>

\* run() / run_strategy() up to the subscription: TradingSystem sets
\* is_running and then its selection pass raises, ArgentinaTrader replaces
\* the sleeve.
Run(scores) ==
    /\ pending = << >> /\ tasks = << >>
    /\ IF program = "TradingSystem"
       THEN /\ is_running' = TRUE
            /\ trading_symbols' = TradingSystem_select_trading_component(scores).trading_symbols
       ELSE /\ is_running' = is_running
            /\ trading_symbols' = ArgentinaTrader_select_trading_component(scores).trading_symbols
    /\ UNCHANGED << program, position, mkt, orders, metrics, stream, pending, tasks, ev, call >>

\* TradingSystem._handle_shutdown.
HandleShutdown ==
    /\ program = "TradingSystem"
    /\ is_running
    /\ is_running' = FALSE
    /\ UNCHANGED << program, position, mkt, orders, trading_symbols, metrics, stream,
                    pending, tasks, ev, call >>

\* The brokerage fills the oldest open order exactly.
Filled(p, o, price) ==
    LET q == IF o.side = "BUY" THEN p.qty + o.qty ELSE p.qty - o.qty
    IN  IF q = 0 THEN NoPosition
        ELSE [found |-> TRUE, qty |-> q,
              avg_entry_price |-> IF p.found THEN p.avg_entry_price ELSE price]

Fill ==
    /\ orders # << >>
    /\ LET o == Head(orders)
       IN  position' = [position EXCEPT ![o.symbol] = Filled(@, o, mkt[o.symbol])]
    /\ orders' = Tail(orders)
    /\ UNCHANGED << program, mkt, trading_symbols, metrics, is_running, stream, pending,
                    tasks, ev, call >>

\* The market moves.
PriceMove(symbol, price) ==
    /\ price \in PricesOf(symbol)
    /\ mkt[symbol] # price
    /\ mkt' = [mkt EXCEPT ![symbol] = price]
    /\ UNCHANGED << program, position, orders, trading_symbols, metrics, is_running,
                    stream, pending, tasks, ev, call >>

Next ==
    \/ \E symbol \in Symbols, price \in TickPrices : Tick(symbol, price)
    \/ \E scores \in ScoreInputs(ScoredUniverse) : Run(scores)
    \/ HandleShutdown
    \/ Fill
    \/ \E symbol \in Symbols, price \in UNION {PricesOf(s) : s \in Symbols} :
          PriceMove(symbol, price)

Spec == Init /\ [][Next]_vars

(***************************************************************************)
(* Floating-point values.  A float is a finite number, kept as an integer  *)
(* in the unit of its quantity (hundredths unless said otherwise), or one  *)
(* of nan, inf, -inf.  numpy and pandas divide by zero without raising:    *)
(* x / 0 is inf or -inf, 0 / 0 is nan.                                     *)
(***************************************************************************)
Num(n) == [k |-> "num", v |-> n]

NaN == [k |-> "nan", v |-> 0]

PosInf == [k |-> "inf", v |-> 1]

NegInf == [k |-> "inf", v |-> 0 - 1]

IsNum(x) == x.k = "num"

Sign(n) == IF n > 0 THEN 1 ELSE IF n < 0 THEN 0 - 1 ELSE 0

\* Quotient of integers rounded toward zero.
TruncDiv(a, b) == Sign(a) * Sign(b) * (Abs(a) \div Abs(b))

FNeg(x) == IF x.k = "nan" THEN NaN ELSE [x EXCEPT !.v = 0 - x.v]

FAdd(x, y) ==
    CASE x.k = "nan" \/ y.k = "nan" -> NaN
      [] x.k = "inf" /\ y.k = "inf" -> IF x.v = y.v THEN x ELSE NaN
      [] x.k = "inf" -> x
      [] y.k = "inf" -> y
      [] OTHER -> Num(x.v + y.v)

FSub(x, y) == FAdd(x, FNeg(y))

\* The product, in the product of the units of x and y.
FMul(x, y) ==
    CASE x.k = "nan" \/ y.k = "nan" -> NaN
      [] x.k = "inf" \/ y.k = "inf" ->
            IF Sign(x.v) * Sign(y.v) = 0 THEN NaN
            ELSE IF Sign(x.v) * Sign(y.v) > 0 THEN PosInf ELSE NegInf
      [] OTHER -> Num(x.v * y.v)

\* x / 0 for finite x.
FDivByZero(x, y) ==
    IF x.v = 0 THEN NaN ELSE IF x.v > 0 THEN PosInf ELSE NegInf

\* The quotient of two floats of one unit, in hundredths.
FDiv(x, y) ==
    CASE x.k = "nan" \/ y.k = "nan" -> NaN
      [] x.k = "inf" /\ y.k = "inf" -> NaN
      [] x.k = "inf" -> IF y.v >= 0 THEN x ELSE FNeg(x)
      [] y.k = "inf" -> Num(0)
      [] y.v = 0 -> FDivByZero(x, y)
      [] OTHER -> Num(TruncDiv(100 * x.v, y.v))

\* x > y: FALSE as soon as one side is nan.
FGt(x, y) ==
    CASE x.k = "nan" \/ y.k = "nan" -> FALSE
      [] x.k = "inf" /\ y.k = "inf" -> x.v > y.v
      [] x.k = "inf" -> x.v > 0
      [] y.k = "inf" -> y.v < 0
      [] OTHER -> x.v > y.v

(***************************************************************************)
(* The signal functions.  The statistics of the price series are the       *)
(* inputs: momentum is the last rolling mean of the returns, volatility    *)
(* the last annualised rolling standard deviation, deviation the last      *)
(* price minus its moving average, std the last rolling standard deviation *)
(* of the prices, all in hundredths; hurst is the outcome of               *)
(* calculate_hurst_exponent, an exception or a float in hundredths.        *)
(***************************************************************************)
Raised(exc) == [exc |-> exc, value |-> NaN]

Returned(x) == [exc |-> "none", value |-> x]

\* MomentumAnalyzer.calculate_signal: (adjusted_signal, volatility, hurst).
calculate_signal(momentum, volatility, hurst) ==
    IF hurst.exc # "none" THEN [exc |-> hurst.exc, adjusted_signal |-> NaN,
                                volatility |-> NaN, hurst |-> NaN]
    ELSE [exc |-> "none", adjusted_signal |-> FDiv(momentum, volatility),
          volatility |-> volatility, hurst |-> hurst.value]

\* MeanReversionAnalyzer.get_signal: minus the last z-score.
get_signal(deviation, std) == FNeg(FDiv(deviation, std))

One == Num(100)

Half == Num(50)

momentum_multiplier_swapped(hurst) == IF FGt(hurst, Half) THEN FSub(One, hurst) ELSE hurst

\* (hurst if hurst > 0.5 else 1 - hurst), in hundredths.
momentum_multiplier(hurst) == IF FGt(hurst, Half) THEN hurst ELSE FSub(One, hurst)

\* (1 - hurst if hurst > 0.5 else hurst), in hundredths.
mean_rev_multiplier(hurst) == IF FGt(hurst, Half) THEN FSub(One, hurst) ELSE hurst

momentum_threshold == 2

risk_multiplier_tenths == 12

\* SignalCombiner.calculate_combined_signal.  The effective weights are in
\* units of 1e-4, the combined signal in units of 1e-7.
calculate_combined_signal(momentum, volatility, hurst, deviation, std, symbol, sd) ==
    LET ms == calculate_signal(momentum, volatility, hurst)
    IN  IF ms.exc # "none"
        THEN [exc |-> ms.exc, momentum_weight |-> NaN, mean_rev_weight |-> NaN,
              combined_signal |-> NaN]
        ELSE LET mean_rev_signal == get_signal(deviation, std)
                 momentum_weight == FMul(Num(sd.momentum_weight), momentum_multiplier(ms.hurst))
                 mean_rev_weight == FMul(Num(sd.mean_rev_weight), mean_rev_multiplier(ms.hurst))
                 combined_signal == FAdd(FMul(momentum_weight, ms.adjusted_signal),
                                         FMul(mean_rev_weight, mean_rev_signal))
                 boost == IF symbol = "YPF" /\ FGt(ms.adjusted_signal, Num(momentum_threshold))
                          THEN risk_multiplier_tenths ELSE 10
             IN  [exc |-> "none", momentum_weight |-> momentum_weight,
                  mean_rev_weight |-> mean_rev_weight,
                  combined_signal |-> FMul(combined_signal, Num(boost))]

(***************************************************************************)
(* The selection pass over market data.  The data of a candidate is what   *)
(* the data provider answers for it during one pass.                       *)
(***************************************************************************)
min_daily_volume == 500000

max_spread == 2

\* The candidates that have data in the model; every other candidate has
\* no bars.
PassUniverse == {"GGAL", "BMA", "CEPU"}

GoodData ==
    [liq_bars |-> "ok", adv |-> 600000, spread |-> 1, quote |-> "ok", bars |-> "ok",
     momentum |-> Num(5), volatility |-> Num(25), hurst |-> Returned(Num(60))]

NoData == [GoodData EXCEPT !.liq_bars = "None", !.bars = "None"]

DataCases ==
    {GoodData,
     [GoodData EXCEPT !.momentum = Num(0 - 3)],
     [GoodData EXCEPT !.adv = min_daily_volume],
     [GoodData EXCEPT !.spread = max_spread],
     [GoodData EXCEPT !.liq_bars = "None"],
     [GoodData EXCEPT !.quote = "raise"],
     [GoodData EXCEPT !.bars = "None"],
     [GoodData EXCEPT !.volatility = Num(0)],
     [GoodData EXCEPT !.volatility = Num(0), !.momentum = Num(0)],
     [GoodData EXCEPT !.hurst = Raised("LinAlgError")],
     [GoodData EXCEPT !.hurst = Returned(NaN)]}

DataOf(data, symbol) == IF symbol \in DOMAIN data THEN data[symbol] ELSE NoData

\* The body both check_liquidity methods share: no bars, or an exception
\* from the quote request, gives False.
liquidity_gate(d, min_volume) ==
    IF d.liq_bars = "None" THEN FALSE
    ELSE IF d.quote = "raise" THEN FALSE
    ELSE d.adv > min_volume /\ d.spread < max_spread

\* ArgentinaTrader.check_liquidity(symbol).
ArgentinaTrader_check_liquidity(d) ==
    [exc |-> "none", value |-> liquidity_gate(d, min_daily_volume)]

\* score = 0.4 * a + 0.3 * (hurst - 0.5) + 0.3 * (1 / volatility), in
\* thousandths, a being the first term's ratio.
score_of(a, volatility, hurst) ==
    FAdd(FAdd(FMul(Num(4), a), FMul(Num(3), FSub(hurst, Half))),
         FMul(Num(3), FDiv(One, volatility)))

\* The score of a candidate with bars: ArgentinaTrader divides the momentum
\* by the volatility, TradingSystem divides calculate_signal's adjusted
\* signal by the volatility again.
candidate_score(prog, d) ==
    IF prog = "TradingSystem"
    THEN LET sig == calculate_signal(d.momentum, d.volatility, d.hurst)
         IN  IF sig.exc # "none" THEN Raised(sig.exc)
             ELSE Returned(score_of(FDiv(sig.adjusted_signal, sig.volatility),
                                    sig.volatility, sig.hurst))
    ELSE IF d.hurst.exc # "none" THEN Raised(d.hurst.exc)
    ELSE Returned(score_of(FDiv(d.momentum, d.volatility), d.volatility, d.hurst.value))

\* The first loop of select_trading_component from the i-th candidate on:
\* the scores collected, or the exception that ends the pass.
RECURSIVE ScoreLoop(_, _, _, _)
ScoreLoop(prog, data, i, scores) ==
    IF i > Len(CandidateOrder) THEN [exc |-> "none", scores |-> scores]
    ELSE LET symbol == CandidateOrder[i]
             d == DataOf(data, symbol)
             liquid == IF prog = "TradingSystem"
                       THEN check_liquidity(symbol, Missing, liquidity_gate(d, Missing))
                       ELSE ArgentinaTrader_check_liquidity(d)
         IN  IF liquid.exc # "none" THEN [exc |-> liquid.exc, scores |-> scores]
             ELSE IF ~liquid.value THEN ScoreLoop(prog, data, i + 1, scores)
             ELSE IF d.bars = "None" THEN ScoreLoop(prog, data, i + 1, scores)
             ELSE LET sc == candidate_score(prog, d)
                  IN  IF sc.exc # "none" THEN [exc |-> sc.exc, scores |-> scores]
                      ELSE ScoreLoop(prog, data, i + 1,
                                     [t \in DOMAIN scores \cup {symbol} |->
                                         IF t = symbol THEN sc.value ELSE scores[t]])

HasNaN(scores) == \E t \in DOMAIN scores : scores[t].k = "nan"

Filter(seq, keep) == SelectSeq(seq, LAMBDA x : x \in keep)

\* sorted(scores, key=scores.get, reverse=True) on floats: descending and
\* stable.  A nan key compares False with everything, and the order of a
\* list holding one is whatever the sort makes of it: nan_order.
RECURSIVE SortedDescending(_, _)
SortedDescending(scores, rest) ==
    IF rest = {} THEN << >>
    ELSE LET best == CHOOSE t \in rest :
                        \A u \in rest : \/ FGt(scores[t], scores[u])
                                        \/ ~FGt(scores[u], scores[t]) /\ Index(t) <= Index(u)
         IN  << best >> \o SortedDescending(scores, rest \ {best})

sorted_by_score(scores, nan_order) ==
    IF HasNaN(scores) THEN Filter(nan_order, DOMAIN scores)
    ELSE SortedDescending(scores, DOMAIN scores)

select_pass_merging(prog, data, nan_order, prior) ==
    LET r == ScoreLoop(prog, data, 1, << >>)
    IN  [exc |-> r.exc, scores |-> r.scores,
         trading_symbols |->
            LET new == create_trading_config(
                          SelectLoop(sorted_by_score(r.scores, nan_order), 1, << >>, {},
                                     sector_counts_of(r.scores)))
            IN  [t \in DOMAIN new \cup DOMAIN prior |->
                    IF t \in DOMAIN new THEN new[t] ELSE prior[t]]]

\* select_trading_component on the data of one pass: the exception that
\* leaves it, the scores, and the sleeve afterwards (prior when the
\* assignment is not reached).
select_pass(prog, data, nan_order, prior) ==
    LET r == ScoreLoop(prog, data, 1, << >>)
    IN  IF r.exc # "none"
        THEN [exc |-> r.exc, scores |-> r.scores, trading_symbols |-> prior]
        ELSE [exc |-> "none", scores |-> r.scores,
              trading_symbols |->
                 create_trading_config(
                    SelectLoop(sorted_by_score(r.scores, nan_order), 1, << >>, {},
                               sector_counts_of(r.scores)))]

(***************************************************************************)
(* The risk and selection functions on their own: each action calls one of *)
(* them on arguments drawn from the sets below and records the call.       *)
(***************************************************************************)
ArgEntryPrices == {50, 100}
ArgCurrentPrices == 40..135
ArgStopLosses == {8, 10, 12, 15}
ArgTakeProfits == {15, 20, 25, 30}
ArgSignals == {0 - 300, 0 - 200, 0 - 150, 0 - 100, 0 - 50, 0, 50, 100, 149, 150, 151, 200, 300}
ArgProfiles == {holdings[s] : s \in DOMAIN holdings} \cup {create_trading_config(<< "GGAL" >>)["GGAL"]}
ArgUniverse == {"GGAL", "BMA", "CEPU", "EDN", "AGRO"}

PendingCalls ==
    [fn : {"check_exits"}, done : {FALSE}, current_price : ArgCurrentPrices,
     entry_price : ArgEntryPrices, stop_loss : ArgStopLosses, take_profit : ArgTakeProfits,
     result : {"pending"}]
    \cup [fn : {"calculate_position_size"}, done : {FALSE}, signal : ArgSignals,
          symbol_data : ArgProfiles, result : {Missing}]
    \cup [fn : {"_select_top_symbols"}, done : {FALSE}, scores : ScoreInputs(ArgUniverse),
          sector_counts : {<< >>}, selected : {<< >>}, result : {<< >>}]

InitFn ==
    /\ InitProgram
    /\ program = "TradingSystem"
    /\ position = [s \in Symbols |-> NoPosition]
    /\ mkt = [s \in Symbols |-> 110]
    /\ orders = << >>
    /\ call \in PendingCalls

Call_check_exits ==
    /\ call.fn = "check_exits" /\ ~call.done
    /\ call' = [call EXCEPT !.done = TRUE,
                            !.result = check_exits(call.current_price, call.entry_price,
                                                   call.stop_loss, call.take_profit)]
    /\ UNCHANGED << program, position, mkt, orders, trading_symbols, metrics, is_running,
                    stream, pending, tasks, ev >>

Call_calculate_position_size ==
    /\ call.fn = "calculate_position_size" /\ ~call.done
    /\ call' = [call EXCEPT !.done = TRUE,
                            !.result = calculate_position_size(call.signal, call.symbol_data)]
    /\ UNCHANGED << program, position, mkt, orders, trading_symbols, metrics, is_running,
                    stream, pending, tasks, ev >>

Call_select_top_symbols ==
    /\ call.fn = "_select_top_symbols" /\ ~call.done
    /\ call' = [call EXCEPT
                   !.done = TRUE,
                   !.sector_counts = sector_counts_of(call.scores),
                   !.selected = selected_symbols_of(call.scores, sector_counts_of(call.scores)),
                   !.result = _select_top_symbols(call.scores, sector_counts_of(call.scores))]
    /\ UNCHANGED << program, position, mkt, orders, trading_symbols, metrics, is_running,
                    stream, pending, tasks, ev >>

NextFn ==
    \/ Call_check_exits
    \/ Call_calculate_position_size
    \/ Call_select_top_symbols

SpecFn == InitFn /\ [][NextFn]_vars

(***************************************************************************)
(* The signal functions on their own: each action calls one of them on     *)
(* statistics drawn from the sets below and records the call.              *)
(***************************************************************************)
ArgMomenta == {Num(0 - 3), Num(0), Num(5)}
ArgVolatilities == {Num(0), Num(25)}
ArgDeviations == {Num(0 - 4), Num(0), Num(4)}
ArgStds == {Num(0), Num(2)}
ArgHursts ==
    {Raised("LinAlgError")}
    \cup {Returned(h) : h \in {NaN} \cup {Num(n) : n \in {0 - 20, 0, 30, 50, 51, 70, 100, 130}}}

PendingSignalCalls ==
    [fn : {"calculate_signal"}, done : {FALSE}, momentum : ArgMomenta,
     volatility : ArgVolatilities, hurst : ArgHursts, result : {Raised("pending")}]
    \cup [fn : {"get_signal"}, done : {FALSE}, deviation : ArgDeviations, std : ArgStds,
          result : {NaN}]
    \cup [fn : {"calculate_combined_signal"}, done : {FALSE}, momentum : ArgMomenta,
          volatility : ArgVolatilities, hurst : ArgHursts, deviation : ArgDeviations,
          std : ArgStds, symbol : Symbols, symbol_data : {holdings["YPF"], holdings["BBVA"]},
          result : {Raised("pending")}]

InitSignal ==
    /\ InitProgram
    /\ program = "TradingSystem"
    /\ position = [s \in Symbols |-> NoPosition]
    /\ mkt = [s \in Symbols |-> 110]
    /\ orders = << >>
    /\ call \in PendingSignalCalls

Call_calculate_signal ==
    /\ call.fn = "calculate_signal" /\ ~call.done
    /\ call' = [call EXCEPT !.done = TRUE,
                            !.result = calculate_signal(call.momentum, call.volatility,
                                                        call.hurst)]
    /\ UNCHANGED << program, position, mkt, orders, trading_symbols, metrics, is_running,
                    stream, pending, tasks, ev >>

Call_get_signal ==
    /\ call.fn = "get_signal" /\ ~call.done
    /\ call' = [call EXCEPT !.done = TRUE, !.result = get_signal(call.deviation, call.std)]
    /\ UNCHANGED << program, position, mkt, orders, trading_symbols, metrics, is_running,
                    stream, pending, tasks, ev >>

Call_calculate_combined_signal ==
    /\ call.fn = "calculate_combined_signal" /\ ~call.done
    /\ call' = [call EXCEPT
                   !.done = TRUE,
                   !.result = calculate_combined_signal(call.momentum, call.volatility,
                                                        call.hurst, call.deviation, call.std,
                                                        call.symbol, call.symbol_data)]
    /\ UNCHANGED << program, position, mkt, orders, trading_symbols, metrics, is_running,
                    stream, pending, tasks, ev >>

NextSignal ==
    \/ Call_calculate_signal
    \/ Call_get_signal
    \/ Call_calculate_combined_signal

SpecSignal == InitSignal /\ [][NextSignal]_vars

(***************************************************************************)
(* Selection passes.  The market data stay the same from one pass to the   *)
(* next; the sleeve the first pass finds is the one an earlier pass left.  *)
(***************************************************************************)
MaxPasses == 2

CanScoreNaN(data) ==
    \E t \in DOMAIN data : data[t].hurst = Returned(NaN) \/ data[t].momentum = Num(0)

Orders(S) == {p \in [1..Cardinality(S) -> S] : \A i, j \in 1..Cardinality(S) : p[i] = p[j] => i = j}

EarlierData == {[t \in PassUniverse |-> NoData], [t \in PassUniverse |-> GoodData]}

PriorSleeves ==
    {select_pass("ArgentinaTrader", earlier, << >>, << >>).trading_symbols : earlier \in EarlierData}

InitSelect ==
    /\ program \in Programs
    /\ trading_symbols \in (IF program = "TradingSystem" THEN {<< >>} ELSE PriorSleeves)
    /\ metrics = MetricsInit
    /\ is_running = (program = "TradingSystem")
    /\ stream = "running"
    /\ pending = << >>
    /\ tasks = << >>
    /\ ev = NoEval
    /\ position = [s \in Symbols |-> NoPosition]
    /\ mkt = [s \in Symbols |-> 110]
    /\ orders = << >>
    /\ \E data \in [PassUniverse -> DataCases] :
          \E nan_order \in (IF CanScoreNaN(data) THEN Orders(PassUniverse)
                            ELSE {<< "GGAL", "BMA", "CEPU" >>}) :
             call = [fn |-> "select_trading_component", done |-> FALSE, data |-> data,
                     nan_order |-> nan_order, prior |-> trading_symbols,
                     before |-> trading_symbols, n |-> 0, exc |-> "none", scores |-> << >>]

\* One call of select_trading_component.
SelectPass ==
    /\ call.fn = "select_trading_component"
    /\ call.n < MaxPasses
    /\ LET r == select_pass(program, call.data, call.nan_order, trading_symbols)
       IN  /\ trading_symbols' = r.trading_symbols
           /\ call' = [call EXCEPT !.done = TRUE, !.n = @ + 1, !.before = trading_symbols,
                                   !.exc = r.exc, !.scores = r.scores]
    /\ UNCHANGED << program, position, mkt, orders, metrics, is_running, stream, pending,
                    tasks, ev >>

NextSelect == SelectPass

SpecSelect == InitSelect /\ [][NextSelect]_vars

(***************************************************************************)
(* C1.  check_exits returns "stop_loss" exactly when the return is below   *)
(* -stop_loss, otherwise "take_profit" exactly when it is above            *)
(* take_profit, otherwise nothing; both comparisons are strict.  With the  *)
(* levels in hundredths, returns < -stop_loss is                           *)
(* 100 * current < (100 - stop_loss) * entry.                              *)
(***************************************************************************)
C1_BelowStop == 100 * call.current_price < (100 - call.stop_loss) * call.entry_price

C1_AboveTake == 100 * call.current_price > (100 + call.take_profit) * call.entry_price

C1_CheckExits ==
    (call.fn = "check_exits" /\ call.done) =>
        /\ call.result = "stop_loss" <=> C1_BelowStop
        /\ call.result = "take_profit" <=> (~C1_BelowStop /\ C1_AboveTake)
        /\ call.result = "None" <=> (~C1_BelowStop /\ ~C1_AboveTake)
        /\ (call.entry_price = 100 /\ call.stop_loss = 15 /\ call.take_profit = 30) =>
              /\ call.current_price = 84 => call.result = "stop_loss"
              /\ call.current_price = 131 => call.result = "take_profit"
              /\ call.current_price \in {85, 110, 130} => call.result = "None"

\* The return is exactly -stop_loss, and no exit is signalled.
C1_Witness ==
    /\ call.fn = "check_exits" /\ call.done
    /\ call.entry_price = 100 /\ call.stop_loss = 15 /\ call.current_price = 85
    /\ call.result = "None"

(***************************************************************************)
(* C5.  calculate_position_size returns                                    *)
(* capital * target_allocation * min(|signal|, max_position_increase): it  *)
(* never exceeds 1.5 times the base allocation and depends on the          *)
(* magnitude of the signal only (13000, 0.35, 2.0 => 6825).                *)
(***************************************************************************)
C5_Base == (initial_investment * call.symbol_data.target_allocation) \div 100

C5_PositionSize ==
    (call.fn = "calculate_position_size" /\ call.done) =>
        /\ call.result = IF Abs(call.signal) <= 150 THEN C5_Base * Abs(call.signal)
                         ELSE C5_Base * 150
        /\ 100 * call.result <= 150 * (100 * C5_Base)
        /\ call.result = calculate_position_size(0 - call.signal, call.symbol_data)
        /\ (call.symbol_data.target_allocation = 35 /\ call.signal = 200) =>
              call.result = 682500

\* A signal beyond the cap, for the 35% allocation.
C5_Witness ==
    /\ call.fn = "calculate_position_size" /\ call.done
    /\ call.symbol_data.target_allocation = 35 /\ call.signal = 200
    /\ call.result = 682500

(***************************************************************************)
(* C6.  The selection walks the scored candidates in descending score      *)
(* order, accepts at most 3, and never accepts a second symbol of a sector *)
(* already accepted unless that sector counts one candidate only.          *)
(***************************************************************************)
C6_Before(scores, s, t) ==
    \/ scores[s] > scores[t]
    \/ scores[s] = scores[t] /\ Index(s) < Index(t)

C6_Selected == {call.selected[i] : i \in 1..Len(call.selected)}

C6_SelectTop ==
    (call.fn = "_select_top_symbols" /\ call.done) =>
        /\ Len(call.selected) <= 3
        /\ C6_Selected \subseteq DOMAIN call.scores
        /\ DOMAIN call.result = C6_Selected
        /\ \A i, j \in 1..Len(call.selected) :
              i < j => /\ C6_Before(call.scores, call.selected[i], call.selected[j])
                       /\ candidates[call.selected[i]].sector = candidates[call.selected[j]].sector
                             => call.sector_counts[candidates[call.selected[i]].sector] <= 1
        \* a scored candidate is passed over only for its sector, or after the third
        /\ \A s \in DOMAIN call.scores \ C6_Selected :
              \/ \E t \in C6_Selected : /\ C6_Before(call.scores, t, s)
                                        /\ candidates[t].sector = candidates[s].sector
              \/ /\ Len(call.selected) = 3
                 /\ \A t \in C6_Selected : C6_Before(call.scores, t, s)

\* Five scored candidates of sectors banking, banking, energy, energy and
\* agriculture: one of each sector is accepted.
C6_Witness ==
    /\ call.fn = "_select_top_symbols" /\ call.done
    /\ DOMAIN call.scores = ArgUniverse
    /\ Len(call.selected) = 3
    /\ {candidates[s].sector : s \in C6_Selected} = {"banking", "energy", "agriculture"}

(***************************************************************************)
(* The event loop.  Ticks wait in pending until the loop runs a ready      *)
(* callback: the handler of the oldest waiting tick, or an evaluation that *)
(* gave up control at an await and can go on.  tasks holds the evaluations *)
(* that are suspended in this way.                                         *)
(***************************************************************************)
execute_trade_yields == TRUE

\* TradeExecutor.execute_trade awaits nothing: its calls to get_position,
\* create_market_order and submit_order are plain calls.
TradeExecutor_execute_trade_suspends == FALSE

\* ArgentinaTrader.execute_trade awaits nothing either.
ArgentinaTrader_execute_trade_suspends == FALSE

\* Whether the evaluation e gives up control before it completes: only an
\* awaited coroutine that itself awaits can suspend it, and the only
\* coroutine an evaluation awaits is execute_trade.
Suspends(e) ==
    /\ e.trade.called
    /\ IF program = "TradingSystem" THEN TradeExecutor_execute_trade_suspends
       ELSE ArgentinaTrader_execute_trade_suspends

ReadyCallbacks ==
    (IF pending # << >> /\ Len(tasks) < MaxPending THEN {0} ELSE {}) \cup DOMAIN tasks

RemoveAt(seq, i) == SubSeq(seq, 1, i - 1) \o SubSeq(seq, i + 1, Len(seq))

\* The stream client is fed a tick.
TickArrives(symbol, price) ==
    /\ stream = "running"
    /\ Len(pending) < MaxPending
    /\ pending' = Append(pending, [symbol |-> symbol, price |-> price])
    /\ UNCHANGED << program, position, mkt, orders, trading_symbols, metrics, is_running,
                    stream, tasks, ev, call >>

\* One step of the loop: callback 0 starts quote_handler for the oldest
\* tick and runs it up to its first suspension or its end, callback i > 0
\* takes the i-th suspended evaluation to its end.
EventLoopStep(k) ==
    /\ stream = "running"
    /\ Len(orders) < MaxOpenOrders
    /\ IF k = 0
       THEN \E in \in Inputs :
               LET t == Head(pending)
                   e == quote_handler(t.symbol, t.price, in)
               IN  /\ pending' = Tail(pending)
                   /\ IF Suspends(e)
                      THEN /\ tasks' = Append(tasks, e)
                           /\ UNCHANGED << ev, metrics, orders, stream >>
                      ELSE /\ Complete(e)
                           /\ tasks' = tasks
       ELSE /\ Complete(tasks[k])
            /\ tasks' = RemoveAt(tasks, k)
            /\ pending' = pending
    /\ UNCHANGED << program, position, mkt, trading_symbols, is_running, call >>

\* The loop specification starts with the streams subscribed: YPF is held
\* and below or above its entry price, GGAL is not held.
InitLoop ==
    /\ InitProgram
    /\ position = [s \in Symbols |->
                      IF s = "YPF" THEN [found |-> TRUE, qty |-> 455000, avg_entry_price |-> 100]
                      ELSE NoPosition]
    /\ mkt \in [Symbols -> UNION {PricesOf(s) : s \in Symbols}]
    /\ \A s \in Symbols : mkt[s] \in PricesOf(s)
    /\ orders = << >>
    /\ call = [fn |-> "none", done |-> FALSE]

NextLoop ==
    \/ \E symbol \in Symbols, price \in TickPrices : TickArrives(symbol, price)
    \/ \E k \in ReadyCallbacks : EventLoopStep(k)
    \/ \E scores \in ScoreInputs(ScoredUniverse) : Run(scores)
    \/ Fill

SpecLoop == InitLoop /\ [][NextLoop]_vars

(***************************************************************************)
(* Orders in flight.  submit_order returns when the brokerage has accepted *)
(* the order, not when it is filled, and get_position answers with the     *)
(* settled quantity: a tick that arrives before the fill is evaluated      *)
(* against the position as it was before the order.                        *)
(***************************************************************************)
\* A tick is evaluated while up to MaxOpenOrders accepted orders wait to be
\* filled.
TickBeforeFill(symbol, price) ==
    /\ stream = "running"
    /\ Len(orders) <= MaxOpenOrders
    /\ \E in \in Inputs : Complete(quote_handler(symbol, price, in))
    /\ UNCHANGED << program, position, mkt, trading_symbols, is_running, pending, tasks, call >>

NextFills ==
    \/ \E symbol \in Symbols, price \in TickPrices : TickBeforeFill(symbol, price)
    \/ \E scores \in ScoreInputs(ScoredUniverse) : Run(scores)
    \/ Fill

SpecFills == InitLoop /\ [][NextFills]_vars

\* C19: the system is long-only: every target the sizer computes is >= 0,
\* every SELL order the brokerage accepts is for at most the quantity the
\* evaluation found held, and no position quantity is ever negative, orders
\* being filled for exactly their quantity.
C19_TargetNonNegative == ev.sized => ev.target >= 0

C19_SellWithinHolding ==
    (ev.trade.accepted /\ ev.trade.order.side = "SELL") =>
        /\ ev.pos.found
        /\ ev.trade.order.qty <= ev.pos.qty

C19_LongOnly ==
    /\ C19_TargetNonNegative
    /\ C19_SellWithinHolding
    /\ \A s \in Symbols : position[s].qty >= 0

(***************************************************************************)
(* TradingSystem.run(), statement by statement.  call is the frame of the  *)
(* coroutine: pc is the statement it stands at, exc the exception it is    *)
(* carrying.                                                               *)
(***************************************************************************)
MarketDataStream_methods_with_close == {"__init__", "start_streaming", "close"}

\* The methods MarketDataStream defines: no close, no __aenter__/__aexit__.
MarketDataStream_methods == {"__init__", "start_streaming"}

RunIdle == [fn |-> "run", pc |-> "start", exc |-> "none", done |-> FALSE]

\* cleanup(): await self.market_stream.close(), then the exit stack.
cleanup(frame) ==
    IF "close" \in MarketDataStream_methods
    THEN [frame |-> [frame EXCEPT !.pc = "done", !.done = TRUE], stream |-> "closed"]
    ELSE [frame |-> [frame EXCEPT !.pc = "done", !.done = TRUE, !.exc = "AttributeError"],
          stream |-> stream]

\* One statement of run(): the frame, flag, sleeve and stream it leaves.
run_step(frame, scores) ==
    LET same == [frame |-> frame, is_running |-> is_running,
                 trading_symbols |-> trading_symbols, stream |-> stream]
    IN  CASE frame.pc = "start" ->
               [same EXCEPT !.frame.pc = "select", !.is_running = TRUE]
          [] frame.pc = "select" ->
               LET r == TradingSystem_select_trading_component(scores)
               IN  IF r.exc # "none"
                   THEN [same EXCEPT !.frame.pc = "except", !.frame.exc = r.exc]
                   ELSE [same EXCEPT !.frame.pc = "enter",
                                     !.trading_symbols = r.trading_symbols]
          [] frame.pc = "enter" ->
               IF "__aenter__" \in MarketDataStream_methods
               THEN [same EXCEPT !.frame.pc = "wait"]
               ELSE [same EXCEPT !.frame.pc = "except", !.frame.exc = "TypeError"]
          [] frame.pc = "wait" ->
               IF is_running THEN same ELSE [same EXCEPT !.frame.pc = "finally"]
          [] frame.pc = "except" ->
               [same EXCEPT !.frame.pc = "finally"]
          [] frame.pc = "finally" ->
               LET c == cleanup(frame)
               IN  [same EXCEPT !.frame = c.frame, !.stream = c.stream]
          [] OTHER -> same

RunStep ==
    /\ call.fn = "run" /\ ~call.done
    /\ \E scores \in ScoreInputs(ScoredUniverse) :
          LET r == run_step(call, scores)
          IN  /\ call' = r.frame
              /\ is_running' = r.is_running
              /\ trading_symbols' = r.trading_symbols
              /\ stream' = r.stream
    /\ UNCHANGED << program, position, mkt, orders, metrics, pending, tasks, ev >>

\* SIGTERM / SIGINT, once setup_signal_handlers has run.
Signal ==
    /\ call.fn = "run" /\ call.pc # "start"
    /\ is_running
    /\ is_running' = FALSE
    /\ UNCHANGED << program, position, mkt, orders, trading_symbols, metrics, stream,
                    pending, tasks, ev, call >>

InitRun ==
    /\ InitProgram
    /\ program = "TradingSystem"
    /\ position \in [Symbols -> UNION {PositionsOf(s) : s \in Symbols}]
    /\ \A s \in Symbols : position[s] \in PositionsOf(s)
    /\ mkt \in [Symbols -> UNION {PricesOf(s) : s \in Symbols}]
    /\ \A s \in Symbols : mkt[s] \in PricesOf(s)
    /\ orders = << >>
    /\ call = RunIdle

NextRun ==
    \/ RunStep
    \/ Signal
    \/ \E symbol \in Symbols, price \in UNION {PricesOf(s) : s \in Symbols} :
          PriceMove(symbol, price)

\* The event loop keeps running the coroutine.
SpecRun == InitRun /\ [][NextRun]_vars /\ WF_vars(RunStep)

(***************************************************************************)
(* Claims about one tick evaluation.  ev is the last completed evaluation: *)
(* what it read, what it met (ev.in) and what it did.                      *)
(***************************************************************************)
Evaluated == ev.symbol # "" /\ ~ev.skipped

\* The profile of the evaluated symbol: the core table, else the sleeve
\* entry the evaluation looked up.
ProfileAt == IF ev.symbol \in DOMAIN holdings THEN holdings[ev.symbol] ELSE ev.profile

\* The evaluation read a LONG position.
ReadLong == Evaluated /\ ev.pos.found /\ ev.pos.qty > 0

\* The return of the position read is below -stop_loss or above take_profit.
ExitDue ==
    \/ 100 * ev.pos.current_price < (100 - ProfileAt.stop_loss) * ev.pos.avg_entry_price
    \/ 100 * ev.pos.current_price > (100 + ProfileAt.take_profit) * ev.pos.avg_entry_price

\* The target of section 4.6 for the signal the bars of this evaluation give.
TargetAt ==
    ((initial_investment * ProfileAt.target_allocation) \div 100)
        * (IF Abs(ev.in.signal) <= 150 THEN Abs(ev.in.signal) ELSE 150)

\* The order handed to submit_order, if any.
Submitted == ev.trade.order

(***************************************************************************)
(* C2.  An evaluation of a LONG position of quantity q whose return is     *)
(* beyond the stop-loss or take-profit level submits a SELL order for q    *)
(* (given that the brokerage answers the position lookups).                *)
(***************************************************************************)
C2_ExitLiquidates ==
    (ReadLong /\ ProfileAt # NoProfile /\ ExitDue /\ ev.in.pos2_ok) =>
        Submitted = [symbol |-> ev.symbol, side |-> "SELL", qty |-> ev.pos.qty]

(***************************************************************************)
(* C3.  An evaluation that finds quantity 0 (a flat position, or none at   *)
(* the brokerage) while the target is non-zero submits an order moving the *)
(* position from 0 to the target.                                          *)
(***************************************************************************)
C3_FlatAlwaysRebalances ==
    (/\ Evaluated
     /\ ev.in.pos_ok /\ ev.in.pos2_ok /\ ev.in.bars = "ok"
     /\ ev.symbol \in DOMAIN holdings
     /\ ~position[ev.symbol].found \/ position[ev.symbol].qty = 0
     /\ ~ev.pos.found \/ ev.pos.qty = 0
     /\ TargetAt # 0) =>
        Submitted = [symbol |-> ev.symbol, side |-> "BUY", qty |-> TargetAt]

(***************************************************************************)
(* C4.  An evaluation of a LONG position where no exit is due submits an   *)
(* order iff |target - current| / current > 0.10, BUY if target > current  *)
(* and SELL otherwise, for |target - current| (given that the brokerage    *)
(* and the data provider answer).                                          *)
(***************************************************************************)
C4_RebalanceRule ==
    (/\ ReadLong /\ ProfileAt # NoProfile /\ ~ExitDue
     /\ ev.in.pos2_ok /\ ev.in.bars = "ok") =>
        IF Abs(TargetAt - ev.pos.qty) * 100 > 10 * ev.pos.qty
        THEN Submitted = [symbol |-> ev.symbol,
                          side |-> IF TargetAt > ev.pos.qty THEN "BUY" ELSE "SELL",
                          qty |-> Abs(TargetAt - ev.pos.qty)]
        ELSE Submitted = NoOrder

(***************************************************************************)
(* C7.  An evaluation of a held symbol whose bars fetch returns no data    *)
(* submits no order, records no trade and leaves position and open orders  *)
(* as they were.                                                           *)
(***************************************************************************)
BarsFailed(e) == e.symbol # "" /\ ~e.skipped /\ e.fetched /\ e.in.bars = "None"

C7_NoDataNoOrder ==
    /\ [](BarsFailed(ev) =>
             /\ ~ev.trade.called /\ Submitted = NoOrder
             /\ ~ev.logged /\ metrics = ev.metrics)
    /\ [][(BarsFailed(ev') /\ ev' # ev) =>
             (position' = position /\ orders' = orders /\ metrics' = metrics)]_vars

\* The bars of a held symbol could not be fetched.
C7_Witness == BarsFailed(ev) /\ ev.pos.found /\ ev.pos.qty > 0 /\ position[ev.symbol] # NoPosition

(***************************************************************************)
(* C8.  When submit_order raises, execute_trade catches the error itself,  *)
(* position and open orders stay as they were, and an evaluation of the    *)
(* same symbol with the same position, market data and profile hands the   *)
(* same order to submit_order again.                                       *)
(***************************************************************************)
Rejected(e) == e.symbol # "" /\ ~e.skipped /\ e.trade.order # NoOrder /\ ~e.trade.accepted

SameSituation ==
    /\ position[ev.symbol].found
    /\ position[ev.symbol].qty = ev.pos.qty
    /\ position[ev.symbol].avg_entry_price = ev.pos.avg_entry_price
    /\ mkt[ev.symbol] = ev.pos.current_price
    /\ symbol_data(ev.symbol) = ev.profile

C8_RejectedRetried ==
    /\ [](Rejected(ev) =>
             /\ ev.trade.exc = "APIError" /\ ev.err = "none" /\ ev.raised = "none"
             /\ stream = "running"
             /\ SameSituation =>
                   \A ok \in BOOLEAN :
                      quote_handler(ev.symbol, ev.price,
                                    [ev.in EXCEPT !.submit_ok = ok]).trade.order = Submitted)
    /\ [][(Rejected(ev') /\ ev' # ev) => (position' = position /\ orders' = orders)]_vars

\* A liquidating order was rejected, and the position is still there.
C8_Witness == Rejected(ev) /\ SameSituation /\ Submitted.side = "SELL"

(***************************************************************************)
(* C9.  No failure inside an evaluation leaves the handler: the stream     *)
(* keeps running, the evaluation changes neither is_running nor the        *)
(* sleeve, and ticks of the other symbols are evaluated afterwards.        *)
(***************************************************************************)
Failed(e) == e.symbol # "" /\ ~e.skipped /\ (e.err # "none" \/ e.trade.exc # "none")

C9_FailureIsolated ==
    /\ [](ev.raised = "none" /\ stream = "running")
    /\ [][(Failed(ev') /\ ev' # ev) =>
             (is_running' = is_running /\ trading_symbols' = trading_symbols
              /\ stream' = "running")]_vars

\* An evaluation of YPF failed, and a tick of GGAL can be evaluated.
C9_Witness ==
    /\ Failed(ev) /\ ev.symbol = "YPF"
    /\ ENABLED Tick("GGAL", 100)

(***************************************************************************)
(* C10.  Under every interleaving of arriving ticks and loop steps, at     *)
(* most one evaluation of a symbol is in flight: no evaluation is left     *)
(* suspended while another one of the same symbol starts, and every order  *)
(* is submitted in the loop step that read the position it is computed     *)
(* from.                                                                   *)
(***************************************************************************)
InFlight(symbol) == {i \in DOMAIN tasks : tasks[i].symbol = symbol}

C11_NoEvaluationAfterShutdown ==
    /\ []((program = "TradingSystem" /\ ev.skipped) =>
             (ev.pos = NoRead /\ ev.trade = NoTrade /\ ev.err = "none" /\ ~ev.logged))
    /\ [][(program = "TradingSystem" /\ ~is_running /\ ev' # ev) =>
             /\ ev'.skipped /\ ev'.symbol # ""
             /\ ev'.pos = NoRead /\ ev'.trade = NoTrade
             /\ orders' = orders /\ metrics' = metrics /\ position' = position]_vars

\* A tick of a held symbol arrived when is_running was FALSE and was dropped.
C11_Witness ==
    /\ program = "TradingSystem" /\ ~is_running
    /\ ev.symbol = "YPF" /\ ev.skipped
    /\ position["YPF"].found /\ ev.in.pos_ok

(***************************************************************************)
(* C12.  Once the shutdown signal has been handled during run(), run()     *)
(* eventually returns, without an exception, with the data stream closed   *)
(* by cleanup.                                                             *)
(***************************************************************************)
C12_ShutdownTerminates ==
    (call.fn = "run" /\ call.pc # "start" /\ ~is_running)
        ~> (call.done /\ call.exc = "none" /\ stream = "closed")

(***************************************************************************)
(* C14.  A volatility of exactly 0 makes the momentum signal 0, a rolling  *)
(* standard deviation of exactly 0 makes the mean-reversion signal 0, and  *)
(* the combined signal is then a finite number (0 when both are zero):     *)
(* no exception, no nan, no infinity.                                      *)
(***************************************************************************)
C14_ZeroVarianceNeutral ==
    call.done =>
        /\ (call.fn = "calculate_signal" /\ call.volatility = Num(0)
                /\ call.hurst.exc = "none") =>
              (call.result.exc = "none" /\ call.result.adjusted_signal = Num(0))
        /\ (call.fn = "get_signal" /\ call.std = Num(0)) => call.result = Num(0)
        /\ (call.fn = "calculate_combined_signal"
                /\ (call.volatility = Num(0) \/ call.std = Num(0))
                /\ call.hurst.exc = "none" /\ IsNum(call.hurst.value)) =>
              /\ call.result.exc = "none" /\ IsNum(call.result.combined_signal)
              /\ (call.volatility = Num(0) /\ call.std = Num(0)) =>
                    call.result.combined_signal = Num(0)

(***************************************************************************)
(* C18.  For a finite trend strength H the effective weights are the       *)
(* profile weights times (H if H > 0.5 else 1 - H) and                     *)
(* (1 - H if H > 0.5 else H); the two multipliers sum to 1, both are 0.5   *)
(* at H = 0.5, and on 0 <= H <= 1 the momentum multiplier is at least 0.5  *)
(* and the mean-reversion multiplier at most 0.5.                          *)
(***************************************************************************)
C18_H == call.hurst.value.v

C18_Weights ==
    (call.fn = "calculate_combined_signal" /\ call.done
        /\ call.hurst.exc = "none" /\ IsNum(call.hurst.value)) =>
        LET mm == IF C18_H > 50 THEN C18_H ELSE 100 - C18_H
            mr == IF C18_H > 50 THEN 100 - C18_H ELSE C18_H
        IN  /\ call.result.exc = "none"
            /\ call.result.momentum_weight = Num(call.symbol_data.momentum_weight * mm)
            /\ call.result.mean_rev_weight = Num(call.symbol_data.mean_rev_weight * mr)
            /\ momentum_multiplier(call.hurst.value) = Num(mm)
            /\ mean_rev_multiplier(call.hurst.value) = Num(mr)
            /\ mm + mr = 100
            /\ C18_H = 50 => (mm = 50 /\ mr = 50)
            /\ (0 <= C18_H /\ C18_H <= 100) => (mm >= 50 /\ 50 >= mr)

\* The blender was called at H = 0.5 exactly and halved both weights.
C18_Witness ==
    /\ call.fn = "calculate_combined_signal" /\ call.done
    /\ call.hurst = Returned(Num(50))
    /\ call.result.momentum_weight = Num(50 * call.symbol_data.momentum_weight)
    /\ call.result.mean_rev_weight = Num(50 * call.symbol_data.mean_rev_weight)

(***************************************************************************)
(* Claims about a selection pass.  call.data is the data of the pass,      *)
(* call.scores what it scored, call.exc the exception that ended it.       *)
(***************************************************************************)
PassDone == call.fn = "select_trading_component" /\ call.n >= 1

PassesGate(d) ==
    /\ d.liq_bars = "ok" /\ d.quote = "ok"
    /\ d.adv > min_daily_volume /\ d.spread < max_spread

\* The candidates a pass should score: through the gate, with bars.
Eligible == {t \in PassUniverse : PassesGate(call.data[t]) /\ call.data[t].bars = "ok"}

HurstFails(d) == d.hurst.exc # "none" \/ ~IsNum(d.hurst.value)

(***************************************************************************)
(* C13.  A pass scores a candidate only if its average daily volume is     *)
(* above min_daily_volume and its spread below 0.02, and a failed bars or  *)
(* quote fetch only excludes the candidate it concerns: when nothing else  *)
(* goes wrong, the pass ends without an exception and has scored every     *)
(* candidate that passes the gate and has bars.                            *)
(***************************************************************************)
C13_LiquidityGate ==
    PassDone =>
        /\ \A t \in DOMAIN call.scores : t \in Eligible
        /\ (\A t \in PassUniverse :
               ~HurstFails(call.data[t]) /\ call.data[t].volatility # Num(0)) =>
              (call.exc = "none" /\ DOMAIN call.scores = Eligible)

(***************************************************************************)
(* C15.  A second pass over the same data leaves the sleeve the first pass *)
(* left, and the sleeve a pass assigns is the same whatever sleeve it      *)
(* found.                                                                  *)
(***************************************************************************)
C15_SelectionIdempotent ==
    PassDone =>
        /\ call.n >= 2 => trading_symbols = call.before
        /\ call.exc = "none" =>
              \A prior \in PriorSleeves \cup {call.prior} :
                 select_pass(program, call.data, call.nan_order, prior).trading_symbols
                    = trading_symbols

\* Two passes over the same data replaced a different, non-empty sleeve by
\* a non-empty one.
C15_Witness ==
    /\ PassDone /\ call.n = 2 /\ call.exc = "none"
    /\ DOMAIN trading_symbols # {}
    /\ DOMAIN call.prior # {}
    /\ DOMAIN call.prior # DOMAIN trading_symbols

(***************************************************************************)
(* C16.  A candidate whose volatility is 0 gets no score in a pass and is  *)
(* not in the sleeve the pass assigns.                                     *)
(***************************************************************************)
C16_ZeroVolatilityExcluded ==
    PassDone =>
        \A t \in PassUniverse :
           call.data[t].volatility = Num(0) =>
              /\ t \notin DOMAIN call.scores
              /\ call.exc = "none" => t \notin DOMAIN trading_symbols

(***************************************************************************)
(* C17.  When the Hurst computation fails for a candidate, the pass skips  *)
(* that candidate and completes: no exception leaves it, the candidate has *)
(* no score, and every other candidate that passes the gate, has bars and  *)
(* a finite Hurst exponent is scored.                                      *)
(***************************************************************************)
C17_HurstFailureSkipped ==
    PassDone =>
        \A t \in Eligible :
           HurstFails(call.data[t]) =>
              /\ call.exc = "none"
              /\ t \notin DOMAIN call.scores
              /\ \A u \in Eligible : ~HurstFails(call.data[u]) => u \in DOMAIN call.scores

(***************************************************************************)
(* C20.  An evaluation submits at most one order.  When the stop-loss or   *)
(* take-profit exit fires, the evaluation ends with the liquidation        *)
(* attempt: it requests no bars, computes no signal and no target, and the *)
(* only call of execute_trade it makes is the one for target 0.  An        *)
(* evaluation that gets to the signal has made the exit check, which did   *)
(* not fire.  The order of an exit is the one that closes the position the *)
(* evaluation read.                                                        *)
(***************************************************************************)
C20_ExitFired(e) == e.exit \in {"stop_loss", "take_profit"}

C20_OneOrderPerEvaluation ==
    /\ [](C20_ExitFired(ev) =>
             /\ ~ev.fetched /\ ~ev.sized /\ ev.target = Missing
             /\ ev.trade.called /\ ev.trade.target = 0)
    /\ []((ev.fetched \/ ev.sized) => ev.exit = "None")
    /\ [][ev' # ev => /\ Len(orders') <= Len(orders) + 1
                      /\ (C20_ExitFired(ev') /\ Len(orders') = Len(orders) + 1) =>
                            orders'[Len(orders')] =
                                [symbol |-> ev'.symbol,
                                 side |-> IF ev'.pos.qty > 0 THEN "SELL" ELSE "BUY",
                                 qty |-> Abs(ev'.pos.qty)]]_vars

\* The stop of a held symbol fired and the liquidating order was accepted.
C20_Witness ==
    /\ C20_ExitFired(ev) /\ ev.symbol = "YPF"
    /\ ev.trade.accepted /\ ev.trade.order.side = "SELL"
    /\ orders # << >>
    /\ ~ev.fetched

AskPrices == TickPrices \cup {84, 131}

\* What an evaluation read, decided and did: all of it but the tick's price.
Decision(e) == [e EXCEPT !.price = 0]

\* The evaluation's record holds the order it handed to submit_order.
C22_TickPriceIgnored ==
    \A symbol \in Symbols, in \in Inputs, p \in AskPrices \ {100} :
        Decision(quote_handler(symbol, p, in)) = Decision(quote_handler(symbol, 100, in))

\* A tick of 105 (5% above the entry price) for a holding the brokerage
\* prices at 84: the stop fired and the liquidating order was accepted.
C22_Witness ==
    /\ Evaluated /\ ev.symbol = "YPF" /\ ev.price = 105
    /\ ev.pos.found /\ ev.pos.avg_entry_price = 100 /\ ev.pos.current_price = 84
    /\ ev.exit = "stop_loss"
    /\ ev.trade.accepted /\ ev.trade.order = [symbol |-> "YPF", side |-> "SELL", qty |-> 455000]

====
